---- MODULE Spec2Model ----
(***************************************************************************)
(* LinkedIn outreach agent: the coordinator LinkedInAgent.process_companies *)
(* (src/linkedin_agent.py) over the spreadsheet tracker CompanyTracker      *)
(* (src/gsheet.py).                                                         *)
(*                                                                          *)
(* Text is modelled as a sequence of tokens: the empty string is <<>>,      *)
(* concatenation is \o, Python's `x in s` on strings is contiguous          *)
(* sub-sequence containment.  A profile URL is a sequence of one-character  *)
(* tokens after the common "/in/" token, so one URL can be a proper prefix  *)
(* of another.  A cell keeps the text update_cell wrote into it.            *)
(***************************************************************************)
EXTENDS Integers, Sequences, FiniteSets, TLC

(* ------------------------------ bounds --------------------------------- *)
\* rows of companies in the sheet
NumCompanies == 2
\* largest configured max_connections_per_company tried (0..MaxCap)
MaxCap == 2
\* runs of main() over the same sheet
MaxRuns == 2
\* Store (Google Sheets) calls that fail in one run
MaxFaults == 1

(* ------------------------------ text ----------------------------------- *)
Empty == <<>>

\* Python: needle in hay
Contains(hay, needle) ==
    \E k \in 0..(Len(hay) - Len(needle)) :
        SubSeq(hay, k + 1, k + Len(needle)) = needle

\* the character " inside a formula
DQ == "dq"

(* --------------------------- the worksheet ----------------------------- *)
\* CompanyTracker.base_columns
base_columns ==
    << <<"Company ID">>, <<"Company Name">>, <<"Status">>, <<"Comments">> >>

base_column_count == Len(base_columns)

\* A row as the Sheets API returns it: no trailing empty cells.
RECURSIVE Trim(_)
Trim(row) ==
    IF row # <<>> /\ row[Len(row)] = Empty
    THEN Trim(SubSeq(row, 1, Len(row) - 1))
    ELSE row

PadTo(row, n) ==
    IF Len(row) >= n THEN row
    ELSE row \o [i \in 1..(n - Len(row)) |-> Empty]

Max(S) == CHOOSE m \in S : \A x \in S : x <= m

\* a write that replaces the row by one holding only the new cell
update_cell_replacing_row(sh, r, c, v) ==
    LET rows == IF Len(sh) >= r THEN sh
                ELSE sh \o [i \in 1..(r - Len(sh)) |-> <<>>]
    IN  [rows EXCEPT ![r] = Trim([PadTo(<<>>, c) EXCEPT ![c] = v])]

\* worksheet.update_cell(row, col, value): one cell, the rest untouched
update_cell(sh, r, c, v) ==
    LET rows == IF Len(sh) >= r THEN sh
                ELSE sh \o [i \in 1..(r - Len(sh)) |-> <<>>]
    IN  [rows EXCEPT ![r] = Trim([PadTo(@, c) EXCEPT ![c] = v])]

\* worksheet.row_values(1): the header row without trailing empty cells
row_values(sh, r) == IF r <= Len(sh) THEN Trim(sh[r]) ELSE <<>>

\* worksheet.get_all_values(): trailing empty rows dropped, rows padded to
\* one width
RECURSIVE TrimRows(_)
TrimRows(sh) ==
    IF sh # <<>> /\ Trim(sh[Len(sh)]) = <<>>
    THEN TrimRows(SubSeq(sh, 1, Len(sh) - 1))
    ELSE sh

get_all_values(sh) ==
    LET rows == TrimRows(sh)
        w    == IF rows = <<>> THEN 0
                ELSE Max({Len(Trim(rows[i])) : i \in 1..Len(rows)})
    IN  [i \in 1..Len(rows) |-> PadTo(Trim(rows[i]), w)]

\* row[i] if len(row) > i else ""   (1-based here)
Cell(row, i) == IF i <= Len(row) THEN row[i] ELSE Empty

\* the person cells of a row: columns after the base columns that have a
\* header position and a non-empty value
RECURSIVE PeopleFrom(_, _, _)
PeopleFrom(headers, row, i) ==
    IF i > Len(row) THEN <<>>
    ELSE IF i <= Len(headers) /\ row[i] # Empty
         THEN <<[column |-> headers[i], data |-> row[i]]>>
              \o PeopleFrom(headers, row, i + 1)
         ELSE PeopleFrom(headers, row, i + 1)

\* the dictionary built for one row by get_company_row / get_all_companies
CompanyData(headers, row, row_idx) ==
    [found        |-> TRUE,
     row_number   |-> row_idx,
     company_id   |-> Cell(row, 1),
     company_name |-> Cell(row, 2),
     status       |-> Cell(row, 3),
     comments     |-> Cell(row, 4),
     people       |-> PeopleFrom(headers, row, base_column_count + 1)]

\* Python None
None ==
    [found |-> FALSE, row_number |-> 0, company_id |-> Empty,
     company_name |-> Empty, status |-> Empty, comments |-> Empty,
     people |-> <<>>]

\* CompanyTracker.get_company_row on the values read: the first data row
\* whose first cell equals company_id, or None
get_company_row(sh, company_id) ==
    LET all_data == get_all_values(sh)
        hits == {r \in 2..Len(all_data) :
                    all_data[r] # <<>> /\ all_data[r][1] = company_id}
    IN  IF all_data = <<>> \/ hits = {} THEN None
        ELSE LET r == CHOOSE h \in hits : \A x \in hits : h <= x
             IN  CompanyData(all_data[1], all_data[r], r)

\* CompanyTracker.get_all_companies on the values read: every data row with
\* a non-empty first cell, in sheet order
RECURSIVE CompaniesFrom(_, _)
CompaniesFrom(all_data, r) ==
    IF r > Len(all_data) THEN <<>>
    ELSE IF all_data[r] # <<>> /\ all_data[r][1] # Empty
         THEN <<CompanyData(all_data[1], all_data[r], r)>>
              \o CompaniesFrom(all_data, r + 1)
         ELSE CompaniesFrom(all_data, r + 1)

get_all_companies(sh) ==
    LET all_data == get_all_values(sh)
    IN  IF all_data = <<>> \/ Len(all_data) < 2 THEN <<>>
        ELSE CompaniesFrom(all_data, 2)

(* --------------------- CompanyTracker: pure parts ---------------------- *)
\* the decimal numerals a header of this model can carry: no run allocates
\* more columns than it sends requests
Numerals == 0..(MaxRuns * NumCompanies * (MaxCap + 1) + 1)

\* int(text) for the text after "Person ": the number, or -1 for ValueError
int(text) ==
    IF Len(text) = 1 /\ \E n \in Numerals : ToString(n) = text[1]
    THEN CHOOSE n \in Numerals : ToString(n) = text[1]
    ELSE -1

\* header.split("Person ")[1]: what follows the first "Person " up to the
\* next one
RECURSIVE UpToPerson(_)
UpToPerson(text) ==
    IF text = <<>> \/ text[1] = "Person " THEN <<>>
    ELSE <<text[1]>> \o UpToPerson(Tail(text))

\* the numbers of the headers that parse as "Person <integer>"
person_columns(headers) ==
    {int(UpToPerson(Tail(headers[i]))) :
        i \in {j \in 1..Len(headers) :
                  /\ headers[j] # <<>>
                  /\ headers[j][1] = "Person "
                  /\ int(UpToPerson(Tail(headers[j]))) # -1}}

\* the next number taken to be the largest one in use
next_person_column_no_increment(headers) ==
    LET next_person_num ==
            IF person_columns(headers) # {}
            THEN Max(person_columns(headers))
            ELSE 1
    IN  <<"Person ", ToString(next_person_num)>>

\* CompanyTracker._get_next_person_column on the header row read
get_next_person_column(headers) ==
    LET next_person_num ==
            IF person_columns(headers) # {}
            THEN Max(person_columns(headers)) + 1
            ELSE 1
    IN  <<"Person ", ToString(next_person_num)>>

\* headers.index(label) + 1
IndexOf(headers, label) ==
    CHOOSE i \in 1..Len(headers) :
        headers[i] = label /\ \A j \in 1..(i - 1) : headers[j] # label

\* the 0-based position used as a 1-based column number
col_number_zero_based(headers, label) ==
    IF \E i \in 1..Len(headers) : headers[i] = label
    THEN IndexOf(headers, label) - 1
    ELSE Len(headers)

\* a membership test that never finds the label
label_never_in_headers(headers, label) == FALSE

\* gsheet.py 458: next_person_column in headers
label_in_headers(headers, label) ==
    \E i \in 1..Len(headers) : headers[i] = label

\* the column add_person_to_company writes to, given the header row read
col_number_for(headers, label) ==
    IF label_in_headers(headers, label)
    THEN IndexOf(headers, label)
    ELSE Len(headers) + 1

\* the formula with the link and the label exchanged
person_data_swapped(linkedin_url, person_name) ==
    <<"=HYPERLINK(", DQ>> \o person_name \o <<DQ, ",", DQ>>
        \o linkedin_url \o <<DQ, ")">>

\* f'=HYPERLINK("{linkedin_url}","{person_name}")'
person_data(linkedin_url, person_name) ==
    <<"=HYPERLINK(", DQ>> \o linkedin_url \o <<DQ, ",", DQ>>
        \o person_name \o <<DQ, ")">>

(* ------------------------------ inputs --------------------------------- *)
\* the people the Finder can turn up (Person: name, profile_url); the URL
\* of the first is a proper prefix of the URL of the second
Persons ==
    { [name |-> <<"A">>, profile_url |-> <<"/in/", "a">>],
      [name |-> <<"B">>, profile_url |-> <<"/in/", "a", "b">>] }

\* search_results[:10]
SearchLimit == 10

\* what search_company_people can return under max_connections_per_company
\* = c: the loop over at most SearchLimit results appends a match and only
\* then tests len(people) >= c; any exception gives []
search_company_people(c) ==
    LET most == IF c < 1 THEN 1 ELSE IF c < SearchLimit THEN c ELSE SearchLimit
    IN  UNION {[1..n -> Persons] : n \in 0..most}

\* str(e) of the exceptions raised while connecting
Reasons ==
    { <<"Could not find or click Connect button">>,
      <<"Could not find Send now button">> }

\* f"Failed to send connection request to {person.name}: {str(e)}"
error_message(person, reason) ==
    <<"Failed to send connection request to ">> \o person.name
        \o <<": ">> \o reason

\* f"Successfully sent {sent_count} connection requests"
success_comment(n) ==
    <<"Successfully sent ", ToString(n), " connection requests">>

Completed == <<"Completed">>

\* the sheet before any run: base headers, one row per company; a company
\* is either not yet processed or was marked by hand
InitialStatuses == {Empty, <<"In Progress">>}

CompanyId(i) == <<ToString(i)>>

InitialSheet(st) ==
    <<base_columns>> \o
    [i \in 1..NumCompanies |->
        Trim(<<CompanyId(i), <<"Company ", ToString(i)>>, st[i], Empty>>)]

(* ------------------------------- state --------------------------------- *)
VARIABLES
    sheet,        \* the worksheet: row 1 the headers, then one row a company
    cap,          \* config.max_connections_per_company
    run,          \* runs of main() started so far
    faults,       \* Store calls that raised in this run
    pc,           \* where the agent is
    site,         \* the call site in LinkedInAgent of the tracker call
    companies,    \* main: companies = tracker.get_all_companies()
    idx,          \* process_companies: position of `company` in companies
    people,       \* process_companies: people
    pidx,         \* process_companies: position of `person` in people
    sent_count,   \* process_companies: sent_count
    results,      \* process_companies: results
    tr,           \* locals of the tracker method being executed
    reread,       \* process_companies: company_data read before completion
    report,       \* history: companies searched in this run, with the number
                  \* of send_connection_request calls that returned True
    log,          \* history: the outcome of each candidate of the company
                  \* searched last, and the Store calls that raised
    appended,     \* history: person cells written for the last company
    seen,         \* history: the rows whose status has been non-empty, the
                  \* rows an error status was written to in this run, and
                  \* the connection requests sent in any run
    ext,          \* the edits made to the sheet by hand while the agent runs
    ag            \* the calls of tracker methods made by several agents at
                  \* once: one frame of locals for each agent

vars == <<sheet, cap, run, faults, pc, site, companies, idx, people, pidx,
          sent_count, results, tr, reread, report, log, appended, seen, ext,
          ag>>

NoFrame ==
    [row_number |-> 0, next_person_column |-> Empty, col_number |-> 0,
     status |-> Empty, comments |-> Empty, has_comments |-> FALSE]

NotRead == [read |-> FALSE, found |-> FALSE, status |-> Empty]

\* results = {}
EmptyDict == [k \in {} |-> 0]

company == companies[idx]
person  == people[pidx]

\* a history entry: what became of the current candidate, its position in
\* `people` and whether candidates follow it
Entry(o) ==
    [p |-> person.profile_url, o |-> o, n |-> pidx,
     more |-> pidx < Len(people)]

\* a connection request: the company it is sent for and the profile it
\* goes to
Request == <<company.company_id, person.profile_url>>

\* a history entry for a step that is not the outcome of a candidate
Note(o) == [p |-> Empty, o |-> o, n |-> pidx, more |-> FALSE]

\* the status text written when a connection request fails (line 478)
IsErrorStatus(status) ==
    status # Empty /\ status[1] = "Failed to send connection request to "

\* the rows of a sheet whose status cell is not empty
NonEmptyRows(sh) ==
    {r \in 2..Len(sh) : Cell(row_values(sh, r), 3) # Empty}

\* no hand edit has been made
NoEdits == [count |-> 0, rows |-> {}, early |-> {}]

\* no agent is inside a tracker call
NoAgents == <<>>

Init ==
    /\ sheet \in {InitialSheet(st) : st \in [1..NumCompanies -> InitialStatuses]}
    /\ cap \in 0..MaxCap
    /\ run = 0
    /\ faults = 0
    /\ pc = "idle"
    /\ site = "none"
    /\ companies = <<>>
    /\ idx = 0
    /\ people = <<>>
    /\ pidx = 0
    /\ sent_count = 0
    /\ results = EmptyDict
    /\ tr = NoFrame
    /\ reread = NotRead
    /\ report = <<>>
    /\ log = <<>>
    /\ appended = 0
    /\ seen = [nonempty |-> NonEmptyRows(sheet), failed |-> {}, sent |-> {}]
    /\ ext = NoEdits
    /\ ag = NoAgents

(* --------------------- process_companies: control ---------------------- *)
Ctl(p, st, i, ppl, pi, sc) ==
    /\ pc' = p
    /\ site' = st
    /\ idx' = i
    /\ people' = ppl
    /\ pidx' = pi
    /\ sent_count' = sc

\* time.sleep(...) and the next iteration of `for company in companies`
NextCompany == Ctl("loop", "none", idx + 1, <<>>, 0, 0)

\* the completion step entered whatever the count
AfterLoop_without_count_test(sc) ==
    Ctl("reread", "complete", idx, <<>>, 0, sc)

\* lines 511-512: after the candidate loop
AfterLoop(sc) ==
    IF sc > 0
    THEN Ctl("reread", "complete", idx, <<>>, 0, sc)
    ELSE NextCompany

\* lines 505-509: send_connection_request returned ret
Return(ret) ==
    LET sc == IF ret THEN sent_count + 1 ELSE sent_count
    IN  /\ report' = [report EXCEPT ![Len(report)].sent = sc]
        /\ IF sc >= cap \/ pidx >= Len(people)
           THEN AfterLoop(sc)
           ELSE Ctl("dedup", "dedup", idx, people, pidx + 1, sc)

\* process_companies without the try around the completion step
caught_without_completion(st) == st \in {"dedup", "record", "error"}

\* the except clause that catches an exception raised at a call site
caught(st) == st \in {"dedup", "record", "error", "complete"}

\* an exception raised by the tracker call made at `site`
Raise ==
    /\ tr' = NoFrame
    /\ IF ~caught(site)
       THEN /\ Ctl("raised", "none", idx, <<>>, 0, sent_count)
            /\ UNCHANGED report
       ELSE CASE site = "dedup" ->
                    /\ Ctl("connect", "none", idx, people, pidx, sent_count)
                    /\ UNCHANGED report
              [] site = "record"   -> Return(TRUE)
              [] site = "error"    -> Return(FALSE)
              [] site = "complete" -> NextCompany /\ UNCHANGED report

\* main: companies = tracker.get_all_companies(); process_companies(companies)
\* (a failing first read ends main before process_companies is entered, so
\* a run starts only from a successful read)
StartRun ==
    /\ UNCHANGED <<ext, ag>>
    /\ pc \in {"idle", "done"}
    /\ run < MaxRuns
    /\ run' = run + 1
    /\ faults' = 0
    /\ companies' = get_all_companies(sheet)
    /\ results' = EmptyDict
    /\ report' = <<>>
    /\ log' = <<>>
    /\ appended' = 0
    /\ reread' = NotRead
    /\ seen' = [seen EXCEPT !.failed = {}]
    /\ Ctl("loop", "none", 1, <<>>, 0, 0)
    /\ UNCHANGED <<sheet, cap, tr>>

\* line 528: return results
Finish ==
    /\ UNCHANGED <<seen, ext, ag>>
    /\ pc = "loop"
    /\ idx > Len(companies)
    /\ pc' = "done"
    /\ UNCHANGED <<sheet, cap, run, faults, site, companies, idx, people,
                   pidx, sent_count, results, tr, reread, report, log,
                   appended>>

\* a skip rule that only recognises finished companies
should_skip_completed_only(c) == c.status = Completed

\* line 497: if company['status'] != ''
should_skip(c) == c.status # Empty

\* lines 497-499
Skip ==
    /\ UNCHANGED <<seen, ext, ag>>
    /\ pc = "loop"
    /\ idx <= Len(companies)
    /\ should_skip(company)
    /\ NextCompany
    /\ UNCHANGED <<sheet, cap, run, faults, companies, results, tr, reread,
                   report, log, appended>>

\* lines 501-502
Search ==
    /\ UNCHANGED <<seen, ext, ag>>
    /\ pc = "loop"
    /\ idx <= Len(companies)
    /\ ~should_skip(company)
    /\ \E ppl \in search_company_people(cap) :
          IF ppl = <<>>
          THEN AfterLoop(0)
          ELSE Ctl("dedup", "dedup", idx, ppl, 1, 0)
    /\ report' = Append(report, [id |-> company.company_id, sent |-> 0])
    /\ log' = <<>>
    /\ appended' = 0
    /\ reread' = NotRead
    /\ UNCHANGED <<sheet, cap, run, faults, companies, results, tr>>

(* ----------------------- send_connection_request ----------------------- *)
\* a comparison of the whole cell with the URL
already_exists_whole_cell(company_data, p) ==
    /\ company_data.found
    /\ \E i \in 1..Len(company_data.people) :
          company_data.people[i].data = p.profile_url

\* lines 321-328: some stored person cell contains the candidate's URL
already_exists(company_data, p) ==
    /\ company_data.found
    /\ \E i \in 1..Len(company_data.people) :
          Contains(company_data.people[i].data, p.profile_url)

\* lines 318-328: the lookup succeeds
CheckExisting ==
    /\ UNCHANGED <<seen, ext, ag>>
    /\ pc = "dedup"
    /\ LET company_data == get_company_row(sheet, company.company_id)
       IN  IF already_exists(company_data, person)
           THEN /\ log' = Append(log, Entry("Dedup"))
                /\ Return(FALSE)
           ELSE /\ Ctl("connect", "none", idx, people, pidx, sent_count)
                /\ UNCHANGED <<log, report>>
    /\ UNCHANGED <<sheet, cap, run, faults, companies, results, tr, reread,
                   appended>>

\* lines 332-343 and 385-392: the profile is visited; no employer found, or
\* no Connect button but a Message button: return False
ConnectSkipped ==
    /\ UNCHANGED <<seen, ext, ag>>
    /\ pc = "connect"
    /\ \E o \in {"EmployerUnknown", "AlreadyConnected"} :
          log' = Append(log, Entry(o))
    /\ Return(FALSE)
    /\ UNCHANGED <<sheet, cap, run, faults, companies, results, tr, reread,
                   appended>>

\* lines 332-460 raising, then 477-484: the except clause starts
\* update_company_status(company_id, error_message)
ConnectFailed ==
    /\ UNCHANGED <<seen, ext, ag>>
    /\ pc = "connect"
    /\ \E reason \in Reasons :
          tr' = [NoFrame EXCEPT !.status = error_message(person, reason)]
    /\ log' = Append(log, Entry("ActionFailed"))
    /\ Ctl("upd_lookup", "error", idx, people, pidx, sent_count)
    /\ UNCHANGED <<sheet, cap, run, faults, companies, results, reread,
                   report, appended>>

\* lines 332-467: the request is sent; add_person_to_company is called
ConnectSent ==
    /\ UNCHANGED <<ext, ag>>
    /\ pc = "connect"
    /\ seen' = [seen EXCEPT !.sent = @ \cup {Request}]
    /\ log' = Append(log, Entry("Sent"))
    /\ Ctl("add_lookup", "record", idx, people, pidx, sent_count)
    /\ UNCHANGED <<sheet, cap, run, faults, companies, results, tr, reread,
                   report, appended>>

(* ------------------------- add_person_to_company ----------------------- *)
\* gsheet.py 444-449
AddLookup ==
    /\ UNCHANGED <<seen, ext, ag>>
    /\ pc = "add_lookup"
    /\ LET company_data == get_company_row(sheet, company.company_id)
       IN  IF company_data.found
           THEN /\ tr' = [tr EXCEPT !.row_number = company_data.row_number]
                /\ Ctl("add_next", site, idx, people, pidx, sent_count)
                /\ UNCHANGED report
           ELSE Raise
    /\ UNCHANGED <<sheet, cap, run, faults, companies, results, reread, log,
                   appended>>

\* gsheet.py 452
AddNextColumn ==
    /\ UNCHANGED <<seen, ext, ag>>
    /\ pc = "add_next"
    /\ tr' = [tr EXCEPT !.next_person_column =
                            get_next_person_column(row_values(sheet, 1))]
    /\ Ctl("add_headers", site, idx, people, pidx, sent_count)
    /\ UNCHANGED <<sheet, cap, run, faults, companies, results, reread,
                   report, log, appended>>

\* gsheet.py 455-462
AddReadHeaders ==
    /\ UNCHANGED <<seen, ext, ag>>
    /\ pc = "add_headers"
    /\ LET headers == row_values(sheet, 1)
           reuse   == label_in_headers(headers, tr.next_person_column)
       IN  /\ tr' = [tr EXCEPT !.col_number =
                                  col_number_for(headers, tr.next_person_column)]
           /\ Ctl(IF reuse THEN "add_cell" ELSE "add_header",
                  site, idx, people, pidx, sent_count)
    /\ UNCHANGED <<sheet, cap, run, faults, companies, results, reread,
                   report, log, appended>>

\* gsheet.py 463
AddWriteHeader ==
    /\ UNCHANGED <<ext, ag>>
    /\ pc = "add_header"
    /\ sheet' = update_cell(sheet, 1, tr.col_number, tr.next_person_column)
    /\ seen' = [seen EXCEPT !.nonempty = @ \cup NonEmptyRows(sheet')]
    /\ Ctl("add_cell", site, idx, people, pidx, sent_count)
    /\ UNCHANGED <<cap, run, faults, companies, results, tr, reread, report,
                   log, appended>>

\* gsheet.py 466-469, then linkedin_agent.py 472-475: return True
AddWriteCell ==
    /\ UNCHANGED <<ext, ag>>
    /\ pc = "add_cell"
    /\ sheet' = update_cell(sheet, tr.row_number, tr.col_number,
                            person_data(person.profile_url, person.name))
    /\ seen' = [seen EXCEPT !.nonempty = @ \cup NonEmptyRows(sheet')]
    /\ appended' = appended + 1
    /\ tr' = NoFrame
    /\ Return(TRUE)
    /\ UNCHANGED <<cap, run, faults, companies, results, reread, log>>

(* ------------------------ update_company_status ------------------------ *)
\* what follows update_company_status returning at the call site
Updated ==
    IF site = "error" THEN Return(FALSE) ELSE NextCompany /\ UNCHANGED report

\* gsheet.py 383-387
UpdLookup ==
    /\ UNCHANGED <<seen, ext, ag>>
    /\ pc = "upd_lookup"
    /\ LET company_data == get_company_row(sheet, company.company_id)
       IN  IF company_data.found
           THEN /\ tr' = [tr EXCEPT !.row_number = company_data.row_number]
                /\ Ctl("upd_status", site, idx, people, pidx, sent_count)
                /\ UNCHANGED report
           ELSE Raise
    /\ UNCHANGED <<sheet, cap, run, faults, companies, results, reread, log,
                   appended>>

\* gsheet.py 391-394
UpdWriteStatus ==
    /\ UNCHANGED <<ext, ag>>
    /\ pc = "upd_status"
    /\ sheet' = update_cell(sheet, tr.row_number, 3, tr.status)
    /\ seen' = [nonempty |-> seen.nonempty \cup NonEmptyRows(sheet'),
                failed   |-> IF site = "error"
                             THEN seen.failed \cup {tr.row_number}
                             ELSE seen.failed,
                sent     |-> seen.sent]
    /\ IF tr.has_comments
       THEN /\ Ctl("upd_comments", site, idx, people, pidx, sent_count)
            /\ UNCHANGED <<tr, report>>
       ELSE /\ tr' = NoFrame
            /\ Updated
    /\ UNCHANGED <<cap, run, faults, companies, results, reread, log,
                   appended>>

\* gsheet.py 395
UpdWriteComments ==
    /\ UNCHANGED <<ext, ag>>
    /\ pc = "upd_comments"
    /\ sheet' = update_cell(sheet, tr.row_number, 4, tr.comments)
    /\ seen' = [seen EXCEPT !.nonempty = @ \cup NonEmptyRows(sheet')]
    /\ tr' = NoFrame
    /\ Updated
    /\ UNCHANGED <<cap, run, faults, companies, results, reread, log,
                   appended>>

(* ------------------- process_companies: completion --------------------- *)
\* a guard that forgets the status test
may_complete_unguarded(company_data) == company_data.found

\* line 516: if company_data and company_data['status'] == ''
may_complete(company_data) ==
    company_data.found /\ company_data.status = Empty

\* lines 515-521
Reread ==
    /\ UNCHANGED <<seen, ext, ag>>
    /\ pc = "reread"
    /\ LET company_data == get_company_row(sheet, company.company_id)
       IN  /\ reread' = [read |-> TRUE, found |-> company_data.found,
                         status |-> company_data.status]
           /\ IF may_complete(company_data)
              THEN /\ tr' = [NoFrame EXCEPT
                               !.status = Completed,
                               !.comments = success_comment(sent_count),
                               !.has_comments = TRUE]
                   /\ log' = Append(log, Note("CompletionCall"))
                   /\ Ctl("upd_lookup", site, idx, people, pidx, sent_count)
              ELSE /\ tr' = NoFrame
                   /\ log' = log
                   /\ NextCompany
    /\ UNCHANGED <<sheet, cap, run, faults, companies, results, report,
                   appended>>

(* ---------------------------- Store failures --------------------------- *)
StoreCallPcs ==
    {"dedup", "add_lookup", "add_next", "add_headers", "add_header",
     "add_cell", "upd_lookup", "upd_status", "upd_comments", "reread"}

\* the Store call the agent is about to make raises instead
StoreCallFails ==
    /\ UNCHANGED <<seen, ext, ag>>
    /\ pc \in StoreCallPcs
    /\ faults < MaxFaults
    /\ faults' = faults + 1
    /\ log' = Append(log, Note("StoreError"))
    /\ Raise
    /\ UNCHANGED <<sheet, cap, run, companies, results, reread, appended>>

Next ==
    \/ StartRun
    \/ Finish
    \/ Skip
    \/ Search
    \/ CheckExisting
    \/ ConnectSkipped
    \/ ConnectFailed
    \/ ConnectSent
    \/ AddLookup
    \/ AddNextColumn
    \/ AddReadHeaders
    \/ AddWriteHeader
    \/ AddWriteCell
    \/ UpdLookup
    \/ UpdWriteStatus
    \/ UpdWriteComments
    \/ Reread
    \/ StoreCallFails

Spec == Init /\ [][Next]_vars

(* ======================= properties of the agent ======================= *)
CoordinatorPcs ==
    {"dedup", "connect", "add_lookup", "add_next", "add_headers",
     "add_header", "add_cell", "upd_lookup", "upd_status", "upd_comments",
     "reread"}

StatusOf(sh, r)   == Cell(row_values(sh, r), 3)
CommentsOf(sh, r) == Cell(row_values(sh, r), 4)

\* the person cells of a company as a reader of the sheet sees them
PeopleOf(sh, id) == get_company_row(sh, id).people

\* how many entries of the log have outcome o
RECURSIVE Count(_, _)
Count(l, o) ==
    IF l = <<>> THEN 0
    ELSE (IF l[1].o = o THEN 1 ELSE 0) + Count(Tail(l), o)

\* the company the log and the last report entry are about
LastId == report[Len(report)].id

(* C1: Idempotent skip.  During a run, a company whose status in the input
   list is non-empty is never searched for, never the subject of a scraper
   or tracker call, and its row (status, comments, person cells) and its
   people as read from the sheet do not change; this includes companies
   that an earlier run marked with an error status. *)
C1_IdempotentSkip ==
    [][ pc # "idle" =>
          \A i \in 1..Len(companies) :
             companies[i].status # Empty =>
                /\ sheet'[companies[i].row_number]
                       = sheet[companies[i].row_number]
                /\ PeopleOf(sheet', companies[i].company_id)
                       = PeopleOf(sheet, companies[i].company_id)
                /\ \A k \in 1..Len(report) :
                       report[k].id # companies[i].company_id
                /\ pc \in CoordinatorPcs => idx # i ]_vars

\* a second run has ended in which a company carrying an error status from
\* the first run was skipped while another company was searched
C1_Witness ==
    /\ run = 2
    /\ pc = "done"
    /\ report # <<>>
    /\ \E i \in 1..Len(companies) :
          /\ companies[i].status # Empty
          /\ companies[i].status[1] = "Failed to send connection request to "
          /\ \A k \in 1..Len(report) : report[k].id # companies[i].company_id

(* C2: Cap invariant.  For every company searched in a run, the number of
   send_connection_request calls that returned True is at most
   max_connections_per_company, for every configured value >= 0. *)
C2_CapInvariant ==
    \A k \in 1..Len(report) : report[k].sent <= cap

(* C3: Dedup invariant.  When the lookup of the company row succeeds and a
   stored person cell of the company contains the candidate's profile_url,
   send_connection_request returns False at once: no navigation, no connect
   attempt, no tracker call, the sheet and the count of sends unchanged.
   The row is read afresh for every candidate, so this covers a candidate
   listed twice whose first send was recorded. *)
C3_DedupInvariant ==
    [][ ( /\ pc = "dedup"
          /\ faults' = faults
          /\ \E i \in 1..Len(PeopleOf(sheet, company.company_id)) :
                Contains(PeopleOf(sheet, company.company_id)[i].data,
                         person.profile_url) )
        => /\ sheet' = sheet
           /\ log' = Append(log, Entry("Dedup"))
           /\ report' = report
           /\ appended' = appended
           /\ pc' \in {"dedup", "reread", "loop"} ]_vars

\* the same candidate twice in one list: sent and recorded, then skipped
C3_Witness ==
    /\ Len(log) = 2
    /\ log[1].o = "Sent"
    /\ log[2].o = "Dedup"
    /\ log[1].p = log[2].p
    /\ appended = 1

(* C4: Completion guard.  A company's status becomes "Completed" only by
   the completion write of process_companies, with sent_count > 0 and the
   status re-read just before being empty (and still empty at the write);
   when that condition fails the completion step leaves every status as
   it was. *)
C4_CompletionGuard ==
    [][ /\ \A r \in 2..Len(sheet) :
              (StatusOf(sheet', r) = Completed /\ StatusOf(sheet, r) # Completed)
              => /\ pc = "upd_status"
                 /\ site = "complete"
                 /\ r = company.row_number
                 /\ sent_count > 0
                 /\ reread.read /\ reread.found /\ reread.status = Empty
                 /\ StatusOf(sheet, r) = Empty
        /\ ( /\ site = "complete"
             /\ ~(sent_count > 0 /\ reread.read /\ reread.found
                    /\ reread.status = Empty) )
           => \A r \in 2..Len(sheet) : StatusOf(sheet', r) = StatusOf(sheet, r)
      ]_vars

\* one company was completed, and for another the re-read found the error
\* status of a failed candidate although a later candidate was sent
C4_Witness ==
    /\ pc = "loop"
    /\ \E r \in 2..Len(sheet) : StatusOf(sheet, r) = Completed
    /\ reread.read
    /\ reread.status # Empty
    /\ Count(log, "Sent") > 0
    /\ \E r \in 2..Len(sheet) :
          /\ sheet[r][1] = LastId
          /\ StatusOf(sheet, r) = reread.status

(* C5: Abort on action failure.  Once a candidate of a company ends in
   ActionFailed, no later candidate of that company is attempted in the
   run: no dedup lookup, no navigation, no connect, no append. *)
C5_AbortOnActionFailure ==
    /\ \A j, k \in 1..Len(log) :
          (j < k /\ log[j].o = "ActionFailed") => log[k].o = "StoreError"
    /\ pc \in {"dedup", "connect", "add_lookup", "add_next", "add_headers",
               "add_header", "add_cell"}
          => Count(log, "ActionFailed") = 0

(* C6: Status domain.  Every status the coordinator writes is "Completed"
   or "Error: " followed by the failure reason, so each company's status is
   always empty, "In Progress", "Completed" or a text beginning "Error: ". *)
C6_StatusDomain ==
    \A r \in 2..Len(sheet) :
       \/ StatusOf(sheet, r) \in {Empty, <<"In Progress">>, Completed}
       \/ /\ StatusOf(sheet, r) # Empty
          /\ StatusOf(sheet, r)[1] = "Error: "

(* C7: Outcome report.  The mapping process_companies returns has, for every
   company processed in the run, an entry company_id -> number of
   connection requests sent to it in the run. *)
C7_OutcomeReport ==
    pc = "done" =>
       \A k \in 1..Len(report) :
          /\ report[k].id \in DOMAIN results
          /\ results[report[k].id] = report[k].sent

\* the ids of the companies of the input with empty status, in input order
RECURSIVE EmptyStatusIds(_)
EmptyStatusIds(cs) ==
    IF cs = <<>> THEN <<>>
    ELSE (IF cs[1].status = Empty THEN <<cs[1].company_id>> ELSE <<>>)
         \o EmptyStatusIds(Tail(cs))

\* how many companies of the input the loop has dealt with or is dealing with
Reached ==
    IF pc \in CoordinatorPcs THEN idx
    ELSE IF pc = "loop" THEN idx - 1
    ELSE IF pc = "done" THEN Len(companies)
    ELSE 0

\* a measure of the work a run has left: companies to go, then candidates
\* to go, then steps of the current call
PcRank ==
    [p \in CoordinatorPcs |->
        CASE p = "dedup"        -> 9
          [] p = "connect"      -> 8
          [] p = "add_lookup"   -> 7
          [] p = "add_next"     -> 6
          [] p = "add_headers"  -> 5
          [] p = "add_header"   -> 4
          [] p = "add_cell"     -> 3
          [] p = "reread"       -> 3
          [] p = "upd_lookup"   -> 2
          [] p = "upd_status"   -> 1
          [] p = "upd_comments" -> 0]

Rank ==
    LET w == 10 * (SearchLimit + 1)
    IN  IF pc \in CoordinatorPcs
        THEN w * (Len(companies) + 1 - idx)
               + 10 * (Len(people) - pidx) + PcRank[pc]
               + (IF site = "complete" THEN 0 ELSE 4) + 1
        ELSE IF pc = "loop" THEN w * (Len(companies) + 2 - idx)
        ELSE 0

(* C8: Failure containment.  Whatever fails (Finder, Scraper, any Store
   read or write), no exception leaves process_companies; every step of a
   run strictly reduces the work left, which is never negative, so the run
   terminates; and the companies searched so far are exactly the
   empty-status companies of the input reached so far, each once and in
   input order, hence all of them at the return. *)
C8_FailureContainment ==
    /\ [](/\ pc # "raised"
          /\ pc # "idle" =>
                [k \in 1..Len(report) |-> report[k].id]
                    = EmptyStatusIds(SubSeq(companies, 1, Reached)))
    /\ [][ (pc = "loop" \/ pc \in CoordinatorPcs)
              => (Rank' < Rank /\ Rank' >= 0) ]_vars

\* a run returned in which the first company took a Scraper failure and a
\* Store call raised, and the second company was searched all the same
C8_Witness ==
    /\ pc = "done"
    /\ Len(report) = 2
    /\ faults > 0
    /\ StatusOf(sheet, 2) # Empty
    /\ StatusOf(sheet, 2)[1] = "Failed to send connection request to "
    /\ Count(log, "Sent") > 0

(* C9: Completion on success.  When the processing of a company with empty
   input status has ended with no Store call having raised, at least one
   candidate Sent and none ActionFailed, then its status is "Completed",
   its comments are "Successfully sent k connection requests" for k the
   number of Sent outcomes, and exactly k person cells were added to its
   row. *)
C9_CompletionOnSuccess ==
    ( /\ pc = "loop"
      /\ idx > 1
      /\ report # <<>>
      /\ LastId = companies[idx - 1].company_id
      /\ Count(log, "StoreError") = 0
      /\ Count(log, "ActionFailed") = 0
      /\ Count(log, "Sent") > 0 )
    => LET r == companies[idx - 1].row_number
           k == Count(log, "Sent")
       IN  /\ StatusOf(sheet, r) = Completed
           /\ CommentsOf(sheet, r) = success_comment(k)
           /\ appended = k
           /\ report[Len(report)].sent = k
           /\ Len(PeopleOf(sheet, LastId))
                 = Len(companies[idx - 1].people) + k
           /\ Len(row_values(sheet, r))
                 = Len(row_values(sheet, 1))

\* a company ended with two requests sent and recorded
C9_Witness ==
    /\ pc = "loop"
    /\ idx > 1
    /\ report # <<>>
    /\ LastId = companies[idx - 1].company_id
    /\ Count(log, "StoreError") = 0
    /\ Count(log, "ActionFailed") = 0
    /\ Count(log, "Sent") = 2
    /\ StatusOf(sheet, companies[idx - 1].row_number) = Completed

\* the profile reference a person cell records: the text between the first
\* two quote characters of the HYPERLINK formula
RECURSIVE UpToQuote(_)
UpToQuote(text) ==
    IF text = <<>> \/ text[1] = DQ THEN <<>>
    ELSE <<text[1]>> \o UpToQuote(Tail(text))

RECURSIVE AfterQuote(_)
AfterQuote(text) ==
    IF text = <<>> THEN <<>>
    ELSE IF text[1] = DQ THEN Tail(text)
    ELSE AfterQuote(Tail(text))

ReferenceOf(data) == UpToQuote(AfterQuote(data))

(* C10: Dedup key is equality of profile references.  A candidate is
   skipped as already contacted if and only if some person recorded for the
   company has a profile reference equal to the candidate's; a reference
   that is only a proper prefix of a recorded one is no duplicate. *)
C10_DedupByEquality ==
    [][ (pc = "dedup" /\ faults' = faults)
        => ( log' = Append(log, Entry("Dedup"))
             <=> \E i \in 1..Len(PeopleOf(sheet, company.company_id)) :
                    ReferenceOf(PeopleOf(sheet, company.company_id)[i].data)
                        = person.profile_url ) ]_vars

\* the label of the n-th person column
PersonLabel(n) == <<"Person ", ToString(n)>>

\* how many data rows have a cell in column c
CellsInColumn(sh, c) ==
    Cardinality({r \in 2..Len(sh) : Cell(sh[r], c) # Empty})

\* the company searched last, as the run read it at its start
LastCompany ==
    companies[CHOOSE i \in 1..Len(companies) :
                  companies[i].company_id = LastId]

(* C11: Column monotonicity.  Starting from the four base headers, with one
   agent adding people (within a run and across runs, for any companies),
   the header row is always the base headers followed by Person 1,
   Person 2, ... in this order with no gap, the header about to be written
   is the next label at the next free column, no row has a cell beyond the
   headers, every Person N column holds at most one person cell in the
   whole sheet, and every cell written added a person to its row (none
   replaced another). *)
C11_ColumnMonotonicity ==
    LET headers == row_values(sheet, 1)
    IN  /\ Len(headers) >= base_column_count
        /\ \A i \in 1..Len(headers) :
               headers[i] = IF i <= base_column_count THEN base_columns[i]
                            ELSE PersonLabel(i - base_column_count)
        /\ \A r \in 2..Len(sheet) :
               Len(row_values(sheet, r)) <= Len(headers)
        /\ \A c \in (base_column_count + 1)..Len(headers) :
               CellsInColumn(sheet, c) <= 1
        /\ pc \in {"add_header", "add_cell"} =>
               tr.next_person_column
                   = PersonLabel(tr.col_number - base_column_count)
        /\ pc = "add_header" => tr.col_number = Len(headers) + 1
        /\ pc = "add_cell" => tr.col_number = Len(headers)
        /\ report # <<>> =>
               Len(PeopleOf(sheet, LastId))
                   = Len(LastCompany.people) + appended

\* a second run added a person to a company other than those of the first
\* run's additions, under the third label
C11_Witness ==
    /\ run = 2
    /\ row_values(sheet, 1)
          = base_columns \o <<PersonLabel(1), PersonLabel(2), PersonLabel(3)>>
    /\ \E r1, r2 \in 2..Len(sheet) :
          /\ r1 # r2
          /\ Cell(sheet[r1], base_column_count + 1) # Empty
          /\ Cell(sheet[r2], base_column_count + 3) # Empty

(* =============== the tracker called by agents side by side ============= *)
\* agents calling the tracker at the same time
NumAgents == 2
\* tracker calls the agents make, all together
MaxCalls == 3
\* cells of a header row edited by hand
MaxHeaders == 3

Agents == 1..NumAgents

NoPerson == [name |-> Empty, profile_url |-> Empty]

\* the locals of the tracker method an agent is in, the calls the agent
\* has made, the update_cell calls the current call has made, and the
\* cells (row, column) that the calls of add_person_to_company the agent
\* made and that returned wrote their person to
IdleFrame ==
    [pc |-> "idle", company_id |-> Empty, person |-> NoPerson,
     row_number |-> 0, next_person_column |-> Empty, col_number |-> 0,
     calls |-> 0, writes |-> 0, added |-> {}]

\* a company_id that no row of the sheet has
UnknownId == <<"x">>

\* the company_id arguments of the calls
CallIds == {CompanyId(i) : i \in 1..NumCompanies} \cup {UnknownId}

\* worksheet.update('A1:D1', [values]): the first four cells of row 1
update_A1_D1(sh, values) ==
    LET rows == IF Len(sh) >= 1 THEN sh ELSE << <<>> >>
        row1 == PadTo(rows[1], Len(values))
    IN  [rows EXCEPT ![1] =
            Trim([i \in 1..Len(row1) |->
                    IF i <= Len(values) THEN values[i] ELSE row1[i]])]

\* the variables of process_companies stay as they are
CoordinatorIdle ==
    UNCHANGED <<cap, run, pc, site, companies, idx, people, pidx, sent_count,
                results, tr, reread, report, log, appended, seen, ext>>

\* the calls made so far by the agents a, a+1, ...
RECURSIVE CallsFrom(_)
CallsFrom(a) ==
    IF a > Len(ag) THEN 0 ELSE ag[a].calls + CallsFrom(a + 1)

\* the agent's call returns or raises: back to the caller
Leave(a) ==
    ag' = [ag EXCEPT ![a] = [IdleFrame EXCEPT !.calls = ag[a].calls,
                                              !.added = ag[a].added]]

\* the person an agent has found: the agents take turns over Persons
PersonOf(a) ==
    CHOOSE p \in Persons :
        (a % 2 = 1) <=> (p.profile_url = <<"/in/", "a">>)

\* an agent calls add_person_to_company(company_id, name, url)
CallAddPerson(a) ==
    /\ ag[a].pc = "idle"
    /\ CallsFrom(1) < MaxCalls
    /\ \E id \in CallIds :
          ag' = [ag EXCEPT ![a] =
                    [IdleFrame EXCEPT !.pc = "add_lookup",
                                      !.company_id = id,
                                      !.person = PersonOf(a),
                                      !.calls = ag[a].calls + 1,
                                      !.added = ag[a].added]]
    /\ UNCHANGED <<sheet, faults>>
    /\ CoordinatorIdle

\* gsheet.py 444-449
AgentAddLookup(a) ==
    /\ ag[a].pc = "add_lookup"
    /\ LET company_data == get_company_row(sheet, ag[a].company_id)
       IN  IF company_data.found
           THEN ag' = [ag EXCEPT ![a].row_number = company_data.row_number,
                                 ![a].pc = "add_next"]
           ELSE Leave(a)
    /\ UNCHANGED <<sheet, faults>>
    /\ CoordinatorIdle

\* gsheet.py 452
AgentAddNextColumn(a) ==
    /\ ag[a].pc = "add_next"
    /\ ag' = [ag EXCEPT ![a].next_person_column =
                            get_next_person_column(row_values(sheet, 1)),
                        ![a].pc = "add_headers"]
    /\ UNCHANGED <<sheet, faults>>
    /\ CoordinatorIdle

\* gsheet.py 455-462
AgentAddReadHeaders(a) ==
    /\ ag[a].pc = "add_headers"
    /\ LET headers == row_values(sheet, 1)
           reuse   == label_in_headers(headers, ag[a].next_person_column)
       IN  ag' = [ag EXCEPT ![a].col_number =
                               col_number_for(headers,
                                              ag[a].next_person_column),
                           ![a].pc = IF reuse THEN "add_cell"
                                     ELSE "add_header"]
    /\ UNCHANGED <<sheet, faults>>
    /\ CoordinatorIdle

\* gsheet.py 463
AgentAddWriteHeader(a) ==
    /\ ag[a].pc = "add_header"
    /\ sheet' = update_cell(sheet, 1, ag[a].col_number,
                            ag[a].next_person_column)
    /\ ag' = [ag EXCEPT ![a].pc = "add_cell",
                        ![a].writes = ag[a].writes + 1]
    /\ UNCHANGED faults
    /\ CoordinatorIdle

\* gsheet.py 466-471
AgentAddWriteCell(a) ==
    /\ ag[a].pc = "add_cell"
    /\ sheet' = update_cell(sheet, ag[a].row_number, ag[a].col_number,
                            person_data(ag[a].person.profile_url,
                                        ag[a].person.name))
    /\ ag' = [ag EXCEPT ![a] =
                 [IdleFrame EXCEPT !.calls = ag[a].calls,
                                   !.added = ag[a].added
                                                \cup {<<ag[a].row_number,
                                                        ag[a].col_number>>}]]
    /\ UNCHANGED faults
    /\ CoordinatorIdle

\* an agent calls initialize_spreadsheet()
CallInitialize(a) ==
    /\ ag[a].pc = "idle"
    /\ CallsFrom(1) < MaxCalls
    /\ ag' = [ag EXCEPT ![a] = [IdleFrame EXCEPT !.pc = "init_read",
                                                 !.calls = ag[a].calls + 1,
                                                 !.added = ag[a].added]]
    /\ UNCHANGED <<sheet, faults>>
    /\ CoordinatorIdle

\* gsheet.py 486-489: first_row = worksheet.row_values(1); return if any
InitializeRead(a) ==
    /\ ag[a].pc = "init_read"
    /\ IF row_values(sheet, 1) # <<>>
       THEN Leave(a)
       ELSE ag' = [ag EXCEPT ![a].pc = "init_write"]
    /\ UNCHANGED <<sheet, faults>>
    /\ CoordinatorIdle

\* gsheet.py 490-491: the read raises; except: pass
InitializeReadFails(a) ==
    /\ ag[a].pc = "init_read"
    /\ faults < MaxFaults
    /\ faults' = faults + 1
    /\ ag' = [ag EXCEPT ![a].pc = "init_write"]
    /\ UNCHANGED sheet
    /\ CoordinatorIdle

\* gsheet.py 494
InitializeWrite(a) ==
    /\ ag[a].pc = "init_write"
    /\ sheet' = update_A1_D1(sheet, base_columns)
    /\ Leave(a)
    /\ UNCHANGED faults
    /\ CoordinatorIdle

\* a Store call of add_person_to_company, or the write of
\* initialize_spreadsheet, raises: the method logs and re-raises
AgentStoreCallFails(a) ==
    /\ ag[a].pc \in {"add_lookup", "add_next", "add_headers", "add_header",
                     "add_cell", "init_write"}
    /\ faults < MaxFaults
    /\ faults' = faults + 1
    /\ Leave(a)
    /\ UNCHANGED sheet
    /\ CoordinatorIdle

AddPersonStep(a) ==
    \/ CallAddPerson(a)
    \/ AgentAddLookup(a)
    \/ AgentAddNextColumn(a)
    \/ AgentAddReadHeaders(a)
    \/ AgentAddWriteHeader(a)
    \/ AgentAddWriteCell(a)
    \/ AgentStoreCallFails(a)

InitializeStep(a) ==
    \/ CallInitialize(a)
    \/ InitializeRead(a)
    \/ InitializeReadFails(a)
    \/ InitializeWrite(a)

\* the coordinator's variables while only the tracker is exercised
TrackerOnly ==
    /\ cap = 0
    /\ run = 0
    /\ faults = 0
    /\ pc = "idle"
    /\ site = "none"
    /\ companies = <<>>
    /\ idx = 0
    /\ people = <<>>
    /\ pidx = 0
    /\ sent_count = 0
    /\ results = EmptyDict
    /\ tr = NoFrame
    /\ reread = NotRead
    /\ report = <<>>
    /\ log = <<>>
    /\ appended = 0
    /\ seen = [nonempty |-> {}, failed |-> {}, sent |-> {}]
    /\ ext = NoEdits

\* the header rows a sheet edited by hand can have: up to MaxHeaders cells,
\* among them labels that are no "Person <integer>", or the base headers
\* with up to MaxHeaders such cells after them
HeaderCells ==
    { Empty, <<"Notes">>, PersonLabel(1), PersonLabel(2),
      <<"Person ", "x">>, <<"Person ">>,
      <<"Person ", "3", "Person ", "9">> }

HeaderRows ==
    LET tails == UNION {[1..n -> HeaderCells] : n \in 0..MaxHeaders}
    IN  {Trim(t) : t \in tails}
        \cup {base_columns \o Trim(t) : t \in tails}

\* one caller of the tracker on a sheet whose header row was edited by hand
HeaderInit ==
    /\ \E h \in HeaderRows :
          sheet = <<h>> \o Tail(InitialSheet([i \in 1..NumCompanies |-> Empty]))
    /\ ag = [a \in {1} |-> IdleFrame]
    /\ TrackerOnly

HeaderNext == AddPersonStep(1) \/ InitializeStep(1)

HeaderSpec == HeaderInit /\ [][HeaderNext]_vars

\* NumAgents agents adding people to a sheet that has the base headers
TrackerInit ==
    /\ sheet = InitialSheet([i \in 1..NumCompanies |-> Empty])
    /\ ag = [a \in Agents |-> IdleFrame]
    /\ TrackerOnly

TrackerNext == \E a \in Agents : AddPersonStep(a)

TrackerSpec == TrackerInit /\ [][TrackerNext]_vars

(* C12: initialize_spreadsheet is idempotent.  It writes the base headers
   only if the header row is empty: while a call of it is in progress on a
   sheet whose header row is not empty, no step of the call changes the
   sheet, also when the read of the header row fails. *)
C12_InitializeIdempotent ==
    [][ ( /\ ag[1].pc \in {"init_read", "init_write"}
          /\ row_values(sheet, 1) # <<>> )
        => sheet' = sheet ]_vars

\* the entries of the log that are the outcome of a candidate
IsOutcome(e) ==
    e.o \in {"Dedup", "EmployerUnknown", "AlreadyConnected", "ActionFailed",
             "Sent"}

(* C13: No write without a send or a failure.  While and after a company
   is processed, as long as no candidate of it was Sent or ActionFailed
   (the Finder returned nothing, or every candidate so far was a dedup hit,
   AlreadyConnected or EmployerUnknown), its row reads exactly as the run
   read it at its start (status empty, comments and people unchanged), no
   person cell was written and no tracker write is under way; and after an
   AlreadyConnected or EmployerUnknown candidate that others follow, the
   next candidate is attempted. *)
C13_NoWriteWithoutSend ==
    report # <<>> =>
       /\ (Count(log, "Sent") = 0 /\ Count(log, "ActionFailed") = 0) =>
              /\ get_company_row(sheet, LastId) = LastCompany
              /\ LastCompany.status = Empty
              /\ appended = 0
              /\ report[Len(report)].sent = 0
              /\ pc \in {"loop", "dedup", "connect", "done"}
       /\ \A j \in 1..Len(log) :
              ( /\ log[j].o \in {"EmployerUnknown", "AlreadyConnected"}
                /\ log[j].more )
              => \/ \E k \in (j + 1)..Len(log) :
                       IsOutcome(log[k]) /\ log[k].n = log[j].n + 1
                 \/ /\ pc \in {"dedup", "connect"}
                    /\ pidx = log[j].n + 1
                    /\ pidx <= Len(people)

\* in a second run a company ended whose first candidate was a dedup hit
\* and whose second was skipped by the scraper
C13_Witness ==
    /\ run = 2
    /\ pc = "loop"
    /\ Len(log) = 2
    /\ log[1].o = "Dedup"
    /\ log[1].more
    /\ log[2].o \in {"EmployerUnknown", "AlreadyConnected"}
    /\ get_company_row(sheet, LastId).status = Empty

\* calls of update_company_status made for the company searched last: one
\* for each ActionFailed candidate (line 484) and the completion call
\* (line 517)
StatusCalls == Count(log, "ActionFailed") + Count(log, "CompletionCall")

(* C14: At most one status write per company per run.  For the company
   being processed, update_company_status has been called at most once
   (counting the calls made inside send_connection_request), and only if
   the company's status was empty at the start of the run. *)
C14_OneStatusWrite ==
    report # <<>> =>
       /\ StatusCalls <= 1
       /\ StatusCalls > 0 => LastCompany.status = Empty

\* the comments of the company in row r as the run read them at its start
CommentsAtStart(r) ==
    LET i == CHOOSE k \in 1..Len(companies) : companies[k].row_number = r
    IN  companies[i].comments

(* C15: An error status is never overwritten by a later success in the same
   run.  For every company an error status was written to during the run,
   in every later state of the run the status is still an error text (never
   "Completed"), the comments are those read at the start of the run (never
   the success message), and no completion write for it is under way. *)
C15_ErrorNotOverwritten ==
    \A r \in seen.failed :
       /\ IsErrorStatus(StatusOf(sheet, r))
       /\ CommentsOf(sheet, r) = CommentsAtStart(r)
       /\ (site = "complete" /\ pc \in {"upd_lookup", "upd_status",
                                          "upd_comments"})
              => company.row_number # r

\* a candidate failed and its error status was written, a later candidate
\* of the same company was sent, and the company has ended with the
\* completion step finding the error status
C15_Witness ==
    /\ pc = "loop"
    /\ report # <<>>
    /\ LastCompany.row_number \in seen.failed
    /\ \E j, k \in 1..Len(log) :
          j < k /\ log[j].o = "ActionFailed" /\ log[k].o = "Sent"
    /\ report[Len(report)].sent > 0
    /\ reread.read
    /\ IsErrorStatus(reread.status)

(* ================== the sheet edited by hand during a run ============== *)
\* edits of a status cell made by hand
MaxEdits == 1

\* the status a person working in the sheet sets
ExternalStatus == <<"On Hold">>

\* the coordinator has re-read the row r (line 515), found the status empty
\* and has not yet written the status cell (gsheet.py 391)
BetweenRereadAndWrite(r) ==
    /\ site = "complete"
    /\ pc \in {"upd_lookup", "upd_status"}
    /\ company.row_number = r

\* somebody sets the status cell of a company while the agent is at work
ExternalEdit ==
    /\ pc \notin {"idle", "done"}
    /\ ext.count < MaxEdits
    /\ \E r \in 2..Len(sheet) :
          /\ sheet' = update_cell(sheet, r, 3, ExternalStatus)
          /\ ext' = [count |-> ext.count + 1,
                     rows  |-> ext.rows \cup {r},
                     early |-> IF BetweenRereadAndWrite(r) THEN ext.early
                               ELSE ext.early \cup {r}]
    /\ seen' = [seen EXCEPT !.nonempty = @ \cup NonEmptyRows(sheet')]
    /\ UNCHANGED <<cap, run, faults, pc, site, companies, idx, people, pidx,
                   sent_count, results, tr, reread, report, log, appended,
                   ag>>

ExtNext == Next \/ ExternalEdit

ExtSpec == Init /\ [][ExtNext]_vars

(* C16: Completion guard under concurrent edits.  As stated: whenever
   somebody has set the status of a company by hand during a run, at any
   moment, that company's status is never "Completed" afterwards. *)
C16_NoClobber ==
    \A r \in ext.rows : StatusOf(sheet, r) # Completed

(* C16 as amended: a status set by hand at any moment of a run other than
   between the coordinator's re-read of that row and its write of the status
   cell is never replaced by "Completed"; and no completion write is under
   way for a row whose re-read did not find the status empty. *)
C16_GuardBeforeReread ==
    /\ \A r \in ext.early : StatusOf(sheet, r) # Completed
    /\ (site = "complete" /\ pc \in {"upd_lookup", "upd_status",
                                       "upd_comments"})
          => (reread.read /\ reread.found /\ reread.status = Empty)

\* the status of a company was set by hand while its candidates were being
\* processed, after one was sent; the re-read found it and the company
\* ended without a completion write
C16_Witness ==
    /\ pc = "loop"
    /\ report # <<>>
    /\ LastCompany.status = Empty
    /\ LastCompany.row_number \in ext.early
    /\ Count(log, "Sent") > 0
    /\ Count(log, "ActionFailed") = 0
    /\ reread.read
    /\ reread.status = ExternalStatus
    /\ StatusOf(sheet, LastCompany.row_number) = ExternalStatus

IsSent(e) == e.o = "Sent"

\* the candidates of the company searched last whose request was sent
SentEntries == SelectSeq(log, IsSent)

\* those of them whose send_connection_request has returned
Returned ==
    IF pc \in {"add_lookup", "add_next", "add_headers", "add_header",
               "add_cell"}
    THEN Len(SentEntries) - 1
    ELSE Len(SentEntries)

\* the name of the candidate with this profile URL
NameOf(url) == (CHOOSE p \in Persons : p.profile_url = url).name

\* the cell to be found for a sent candidate with this profile URL: a
\* HYPERLINK formula linking to the URL and showing the name
ExpectedCell(url) ==
    <<"=HYPERLINK(", DQ>> \o url \o <<DQ, ",", DQ>> \o NameOf(url)
        \o <<DQ, ")">>

\* the column of the header row that carries this label
ColumnOf(label) == IndexOf(row_values(sheet, 1), label)

(* C17: Sent is recorded.  For the company being processed: the people its
   row had at the start of the run are still there, followed by the cells
   written in this run; the count of True returns of send_connection_request
   is the number of candidates Sent whose call has returned; there are never
   more new cells than such candidates (no cell for a candidate not Sent);
   each new cell is under a Person N header of its own, with a number above
   those of the cells before it, that holds no other cell in the whole
   sheet; and while no Store call has failed, the j-th new cell is exactly
   the HYPERLINK formula of the profile_url and name of the j-th candidate
   Sent. *)
C17_SentIsRecorded ==
    report # <<>> =>
       LET now == PeopleOf(sheet, LastId)
           old == LastCompany.people
           new == SubSeq(now, Len(old) + 1, Len(now))
       IN  /\ Len(now) >= Len(old)
           /\ SubSeq(now, 1, Len(old)) = old
           /\ Len(new) = appended
           /\ report[Len(report)].sent = Returned
           /\ Len(new) <= Len(SentEntries)
           /\ \A j \in 1..Len(new) :
                  /\ \E n \in Numerals :
                         /\ new[j].column = PersonLabel(n)
                         /\ \A i \in 1..(Len(old) + j - 1) :
                                int(Tail(now[i].column)) < n
                  /\ CellsInColumn(sheet, ColumnOf(new[j].column)) = 1
                  /\ \E k \in 1..Len(SentEntries) :
                         new[j].data = ExpectedCell(SentEntries[k].p)
           /\ Count(log, "StoreError") = 0 =>
                  /\ Len(new) \in {Returned, Returned + 1}
                  /\ pc # "add_cell" => Len(new) = Returned
                  /\ \A j \in 1..Len(new) :
                         new[j].data = ExpectedCell(SentEntries[j].p)

\* with no Store failure, a company that is not the first to get a person
\* ended with a candidate skipped by the scraper and then one sent and
\* recorded under Person 2
C17_Witness ==
    /\ pc = "loop"
    /\ report # <<>>
    /\ Count(log, "StoreError") = 0
    /\ Len(log) >= 2
    /\ log[1].o = "AlreadyConnected"
    /\ log[2].o = "Sent"
    /\ appended = 1
    /\ PeopleOf(sheet, LastId)
          = <<[column |-> PersonLabel(2),
               data   |-> ExpectedCell(log[2].p)]>>

\* the numbers n for which some header is exactly "Person n"
LabelNumbers(headers) ==
    {n \in Numerals : \E i \in 1..Len(headers) : headers[i] = PersonLabel(n)}

(* C18: Next-column computation.  For every header row,
   _get_next_person_column returns "Person n" with n = 1 if no header is
   "Person <integer>", and otherwise one more than the largest such
   integer; headers that begin with "Person " but do not end in an integer,
   and all other headers, are ignored, whatever the order and position of
   the headers. *)
C18_NextColumn ==
    ag[1].pc = "add_headers" =>
       LET numbers == LabelNumbers(row_values(sheet, 1))
       IN  ag[1].next_person_column
              = PersonLabel(IF numbers = {} THEN 1 ELSE Max(numbers) + 1)

(* C19: Header stability under concurrent allocation.  Starting from the
   four base headers, under every interleaving of the Store reads and
   writes of add_person_to_company calls made by NumAgents agents, the
   header row never has two cells with the same label, the cell at a
   position never holds another label than the base header or Person N
   that belongs to that position, and every header write under way puts
   that same label there (so no label is ever overwritten by another). *)
C19_HeaderStability ==
    LET headers == row_values(sheet, 1)
    IN  /\ \A i, j \in 1..Len(headers) :
               i # j => headers[i] # headers[j]
        /\ Len(headers) >= base_column_count
        /\ \A i \in 1..Len(headers) :
               headers[i] = IF i <= base_column_count THEN base_columns[i]
                            ELSE PersonLabel(i - base_column_count)
        /\ \A a \in Agents :
               ag[a].pc = "add_header" =>
                  /\ ag[a].col_number > base_column_count
                  /\ ag[a].col_number <= Len(headers) + 1
                  /\ ag[a].next_person_column
                        = PersonLabel(ag[a].col_number - base_column_count)

\* two agents computed the label Person 2 from the same header row; one
\* has written the header, the other is about to write it again
C19_Witness ==
    \E a, b \in Agents :
       /\ a # b
       /\ ag[a].pc = "add_header"
       /\ ag[b].pc = "add_cell"
       /\ ag[a].next_person_column = PersonLabel(2)
       /\ ag[b].next_person_column = PersonLabel(2)
       /\ row_values(sheet, 1)
             = base_columns \o <<PersonLabel(1), PersonLabel(2)>>

(* C20: Status is never cleared.  Every row whose status was non-empty in
   some earlier state, of this run or of an earlier one, has a non-empty
   status; the status about to be written by update_company_status is never
   the empty string; and the cell about to be written by
   add_person_to_company is never in the status column. *)
C20_StatusNeverCleared ==
    /\ \A r \in seen.nonempty : StatusOf(sheet, r) # Empty
    /\ pc = "upd_status" => tr.status # Empty
    /\ pc \in {"add_header", "add_cell"} => tr.col_number # 3

\* a second run has ended; every company has a status: one was marked by
\* hand before the runs, the other got its status in the first run
C20_Witness ==
    /\ run = 2
    /\ pc = "done"
    /\ seen.nonempty = 2..Len(sheet)
    /\ \E r \in 2..Len(sheet) : StatusOf(sheet, r) = <<"In Progress">>
    /\ \E r \in 2..Len(sheet) :
          StatusOf(sheet, r) = Completed \/ IsErrorStatus(StatusOf(sheet, r))

(* ------------------- what the tracker's writes may touch --------------- *)
\* the pcs of an agent inside add_person_to_company
AddPersonPcs ==
    {"add_lookup", "add_next", "add_headers", "add_header", "add_cell"}

\* the data rows of the sheet before or after a step
DataRows == 2..Max({Len(sheet), Len(sheet'), 2})

(* C21: the tracker only mutates status, comments and people, whatever the
   header row is (also one shorter than the base headers, or empty).  No
   step of add_person_to_company changes the Company ID or the Company Name
   cell of a data row, the person payload goes to a column after the base
   columns, and no data row other than the one of company_id changes. *)
C21_FrameEffect ==
    [][\A a \in DOMAIN ag :
          (ag[a].pc \in AddPersonPcs /\ ag'[a] # ag[a])
          => /\ \A r \in DataRows :
                   /\ Cell(row_values(sheet', r), 1)
                         = Cell(row_values(sheet, r), 1)
                   /\ Cell(row_values(sheet', r), 2)
                         = Cell(row_values(sheet, r), 2)
                   /\ r # ag[a].row_number
                         => row_values(sheet', r) = row_values(sheet, r)
             /\ (ag[a].pc = "add_cell" /\ ag'[a].pc = "idle"
                                       /\ sheet' # sheet)
                   => ag[a].col_number > base_column_count]_vars

(* C22: At-most-once contact.  Over all the runs on one sheet, with any
   Store call allowed to fail: a connection request is never sent to a
   profile for a company for which a request to that profile was sent
   before. *)
C22_AtMostOnce ==
    [][(pc = "connect" /\ pc' = "add_lookup") => Request \notin seen.sent]_vars

(* ----------------- a call of add_person_to_company that raises --------- *)
\* this step ends the agent's call of add_person_to_company with an
\* exception: the company is not found (ValueError) or a Store call fails
Raises(a) ==
    /\ ag[a].pc \in AddPersonPcs
    /\ ag'[a].pc = "idle"
    /\ ag[a].pc = "add_lookup" \/ faults' # faults

(* C23: add_person_to_company is all-or-nothing.  Whenever a call raises,
   for an unknown company_id or for a Store read or write failing at any
   step, the call has written nothing, so that the sheet is as it was when
   the call began: no Person N header stays behind without the person
   cell. *)
C23_AllOrNothing ==
    [][\A a \in DOMAIN ag :
          Raises(a) => (ag[a].writes = 0 /\ sheet' = sheet)]_vars

(* --------------- people added by agents working side by side ----------- *)
\* the person of agent a is in a cell of row r
Present(a, r) ==
    \E c \in 1..Len(row_values(sheet, r)) :
        sheet[r][c] = ExpectedCell(PersonOf(a).profile_url)

(* C24: No lost person record under interleaving.  Whenever calls of
   add_person_to_company by agents working at the same time, for the same
   or for different company rows, have returned, the person of every such
   call is in a cell of its row. *)
C24_NoLostRecord ==
    \A a \in DOMAIN ag : \A rc \in ag[a].added : Present(a, rc[1])

\* the person of each call that has returned is in the cell the call wrote
\* unless a call of another agent wrote that very cell
KeptUnlessSameCell ==
    \A a \in DOMAIN ag : \A rc \in ag[a].added :
        (\A b \in DOMAIN ag \ {a} : rc \notin ag[b].added)
        => Cell(row_values(sheet, rc[1]), rc[2])
              = ExpectedCell(PersonOf(a).profile_url)

\* the label a call computes (gsheet.py 452) is not in the header row it
\* was computed from
FreshLabel ==
    \A a \in DOMAIN ag :
        (ag[a].pc = "add_next" /\ ag'[a].pc = "add_headers")
        => ~\E i \in 1..Len(row_values(sheet, 1)) :
               sheet[1][i] = ag'[a].next_person_column

\* the write of the person cell changes one cell: the one in the row of
\* the company of the call, under the label the call computed
OneCellUnderLabel ==
    \A a \in DOMAIN ag :
        (ag[a].pc = "add_cell" /\ ag'[a].pc = "idle" /\ sheet' # sheet)
        => /\ ag[a].row_number
                  = get_company_row(sheet, ag[a].company_id).row_number
           /\ Cell(row_values(sheet, 1), ag[a].col_number)
                  = ag[a].next_person_column
           /\ \A r \in 1..Max({Len(sheet), Len(sheet')}) :
                  LET old == row_values(sheet, r)
                      new == row_values(sheet', r)
                  IN  IF r # ag[a].row_number THEN new = old
                      ELSE \A c \in 1..Max({Len(old), Len(new)}) :
                               c # ag[a].col_number
                               => Cell(new, c) = Cell(old, c)

(* C24 as the code has it: last writer wins, between calls that chose the
   same column.  With the calls of the agents interleaved in any order, a
   call writes one cell, in the row of its company and under the Person N
   label it computed, a label that was not in the header row it was
   computed from; the person of a call that returned stays in its cell
   unless a call of another agent wrote that same cell.  So people added
   to different rows are both there, and a person is replaced only by a
   call for the same row that read the header row before the header of that
   person's column was written. *)
C24_LastWriterWins ==
    []KeptUnlessSameCell /\ [][FreshLabel /\ OneCellUnderLabel]_vars

\* two agents whose calls interleaved on different rows: both people are
\* there, under the same Person 1 header
C24_Witness ==
    /\ Len(ag) >= 2
    /\ ag[1].added = {<<2, base_column_count + 1>>}
    /\ ag[2].added = {<<3, base_column_count + 1>>}
    /\ Cell(row_values(sheet, 2), base_column_count + 1)
          = ExpectedCell(PersonOf(1).profile_url)
    /\ Cell(row_values(sheet, 3), base_column_count + 1)
          = ExpectedCell(PersonOf(2).profile_url)

====
